---- MODULE Spec2Model ----
(***************************************************************************)
(* Verification model of solutils:                                         *)
(*   - charge.rs            token_fee / verify_ata        (Fee Charger)     *)
(*   - derive/chargeable    chargeable_derive             (Field Resolver)  *)
(*   - wrappers/metadata.rs update/freeze/thaw wrappers   (CPI builders)    *)
(* The token program and the metadata program are external: they are       *)
(* modelled at the instruction boundary the wrappers invoke.               *)
(***************************************************************************)
EXTENDS Integers, Sequences, FiniteSets, TLC

\* ------------------------------------------------------------------ bounds
\* Largest fee amount a caller passes (scaled stand-in for u64::MAX).
MaxAmount == 2
\* Number of successful token_fee calls followed in one behaviour.
MaxCalls == 2

\* ------------------------------------------------------------ public keys
\* solana_program::incinerator::id(); nobody holds its private key, so it is
\* never the key of a Signer account.
IncineratorId == 0
Alice == 1
Bob == 2
Delegate == 3
MintA == 5
MintB == 6
EditionA == 7
EditionB == 8
AuxAccount == 9

Authorities == {Alice, Bob}
Mints == {MintA, MintB}
Editions == {EditionA, EditionB}

\* anchor_spl::associated_token::get_associated_token_address(&user, &mint):
\* a program-derived address, i.e. a collision-free function of the pair.
get_associated_token_address(user, mint) == 100 + 10 * user + mint

\* Token accounts that exist on the ledger (an Account<TokenAccount> can only
\* be built from one of these): owner, mint and delegate (the owner itself
\* where none is approved).
TokenAccountInfo ==
  (get_associated_token_address(Alice, MintA) :>
       [owner |-> Alice, mint |-> MintA, delegate |-> Delegate])
  @@ (get_associated_token_address(Bob, MintA) :>
       [owner |-> Bob, mint |-> MintA, delegate |-> Bob])
  @@ (get_associated_token_address(IncineratorId, MintA) :>
       [owner |-> IncineratorId, mint |-> MintA, delegate |-> IncineratorId])
  @@ (AuxAccount :>
       [owner |-> Alice, mint |-> MintA, delegate |-> Bob])

TokenAccounts == DOMAIN TokenAccountInfo

InitBalance ==
  [a \in TokenAccounts |->
     IF a = get_associated_token_address(Alice, MintA) THEN MaxAmount
     ELSE IF a = get_associated_token_address(Bob, MintA) THEN 1
     ELSE IF a = AuxAccount THEN 1
     ELSE 0]

\* Total supply never exceeds the width of the amount field.
MaxSupply == 2 * MaxAmount + 2

VARIABLES
  balance,      \* token program: amount held by each token account
  frozen,       \* token program: set of frozen token accounts
  last,         \* the last handler call: its operands and its Result
  cpi,          \* cross-program invocations issued by the last handler call
  okCalls,      \* number of token_fee calls that returned Ok
  transfers,    \* number of transfers the token program has executed
  charged,      \* per token account, sum of the amounts of successful fees
  metadata,     \* metadata program: the metadata records
  item_struct,  \* derive input: the parsed struct
  derived       \* derive output: diagnostic or generated impl

vars == <<balance, frozen, last, cpi, okCalls, transfers, charged,
          metadata, item_struct, derived>>

NoCall == [op |-> "none", result |-> "none"]

\* ------------------------------------------------------- token program
\* spl-token Transfer as reached through anchor_spl::token::transfer: either
\* an error and no change, or the debit and the credit.
SplTransfer(bal, frz, from, to, authority, amount) ==
  IF from \in frz \/ to \in frz
    THEN [result |-> "AccountFrozen", balance |-> bal]
  ELSE IF bal[from] < amount
    THEN [result |-> "InsufficientFunds", balance |-> bal]
  ELSE IF TokenAccountInfo[from].mint # TokenAccountInfo[to].mint
    THEN [result |-> "MintMismatch", balance |-> bal]
  ELSE IF authority # TokenAccountInfo[from].owner
    THEN [result |-> "OwnerMismatch", balance |-> bal]
  ELSE IF from = to
    THEN [result |-> "Ok", balance |-> bal]
  ELSE IF bal[to] + amount > MaxSupply
    THEN [result |-> "Overflow", balance |-> bal]
  ELSE [result |-> "Ok",
        balance |-> [bal EXCEPT ![from] = @ - amount, ![to] = @ + amount]]

TransferIx(from, to, authority, amount, result) ==
  [program |-> "spl_token", instruction |-> "transfer", from |-> from,
   to |-> to, authority |-> authority, amount |-> amount, result |-> result]

\* ------------------------------------------------------------ charge.rs
verify_ata(ata, mint, user) ==
  IF ata = get_associated_token_address(user, mint)
    THEN "Ok" ELSE "InvalidAssociatedTokenAddress"

\* Variants of token_fee with a plausible slip each.
\* Only the burn account is verified.
TokenFee_NoPayerCheck(bal, frz, user_ata, authority, mint_account, incinerator_ata, amount) ==
  IF verify_ata(incinerator_ata, mint_account, IncineratorId) # "Ok"
    THEN [result |-> "InvalidAssociatedTokenAddress", balance |-> bal,
          cpi |-> <<>>]
  ELSE LET t == SplTransfer(bal, frz, user_ata, incinerator_ata, authority,
                            amount)
       IN [result |-> t.result, balance |-> t.balance,
           cpi |-> <<TransferIx(user_ata, incinerator_ata, authority, amount,
                                t.result)>>]

\* Source and destination of the transfer are exchanged.
TokenFee_Swapped(bal, frz, user_ata, authority, mint_account, incinerator_ata, amount) ==
  IF verify_ata(incinerator_ata, mint_account, IncineratorId) # "Ok"
       \/ verify_ata(user_ata, mint_account, authority) # "Ok"
    THEN [result |-> "InvalidAssociatedTokenAddress", balance |-> bal,
          cpi |-> <<>>]
  ELSE LET t == SplTransfer(bal, frz, incinerator_ata, user_ata, authority,
                            amount)
       IN [result |-> t.result, balance |-> t.balance,
           cpi |-> <<TransferIx(incinerator_ata, user_ata, authority, amount,
                                t.result)>>]

\* The Result of the transfer is dropped instead of propagated with `?`.
TokenFee_SwallowError(bal, frz, user_ata, authority, mint_account, incinerator_ata, amount) ==
  IF verify_ata(incinerator_ata, mint_account, IncineratorId) # "Ok"
       \/ verify_ata(user_ata, mint_account, authority) # "Ok"
    THEN [result |-> "InvalidAssociatedTokenAddress", balance |-> bal,
          cpi |-> <<>>]
  ELSE LET t == SplTransfer(bal, frz, user_ata, incinerator_ata, authority,
                            amount)
       IN [result |-> "Ok", balance |-> t.balance,
           cpi |-> <<TransferIx(user_ata, incinerator_ata, authority, amount,
                                t.result)>>]

\* A fee equal to the previous successful one is treated as already paid.
TokenFee_Dedup(bal, frz, user_ata, authority, mint_account, incinerator_ata, amount) ==
  IF verify_ata(incinerator_ata, mint_account, IncineratorId) # "Ok"
       \/ verify_ata(user_ata, mint_account, authority) # "Ok"
    THEN [result |-> "InvalidAssociatedTokenAddress", balance |-> bal,
          cpi |-> <<>>]
  ELSE IF /\ last.op = "token_fee" /\ last.result = "Ok"
          /\ last.user_ata = user_ata /\ last.amount = amount
    THEN [result |-> "Ok", balance |-> bal, cpi |-> <<>>]
  ELSE LET t == SplTransfer(bal, frz, user_ata, incinerator_ata, authority,
                            amount)
       IN [result |-> t.result, balance |-> t.balance,
           cpi |-> <<TransferIx(user_ata, incinerator_ata, authority, amount,
                                t.result)>>]

\* A zero fee skips the address checks.
TokenFee_ZeroSkipsChecks(bal, frz, user_ata, authority, mint_account, incinerator_ata, amount) ==
  IF amount # 0 /\ (verify_ata(incinerator_ata, mint_account, IncineratorId) # "Ok"
                    \/ verify_ata(user_ata, mint_account, authority) # "Ok")
    THEN [result |-> "InvalidAssociatedTokenAddress", balance |-> bal,
          cpi |-> <<>>]
  ELSE LET t == SplTransfer(bal, frz, user_ata, incinerator_ata, authority,
                            amount)
       IN [result |-> t.result, balance |-> t.balance,
           cpi |-> <<TransferIx(user_ata, incinerator_ata, authority, amount,
                                t.result)>>]

\* token_fee as a function of the accounts the Chargeable accessors return,
\* the amount and the token program's state.
TokenFee(bal, frz, user_ata, authority, mint_account, incinerator_ata, amount) ==
  IF verify_ata(incinerator_ata, mint_account, IncineratorId) # "Ok"
    THEN [result |-> "InvalidAssociatedTokenAddress", balance |-> bal,
          cpi |-> <<>>]
  ELSE IF verify_ata(user_ata, mint_account, authority) # "Ok"
    THEN [result |-> "InvalidAssociatedTokenAddress", balance |-> bal,
          cpi |-> <<>>]
  ELSE LET t == SplTransfer(bal, frz, user_ata, incinerator_ata, authority,
                            amount)
       IN [result |-> t.result, balance |-> t.balance,
           cpi |-> <<TransferIx(user_ata, incinerator_ata, authority, amount,
                                t.result)>>]

OkTransfers(log) ==
  Cardinality({i \in DOMAIN log :
                 log[i].instruction = "transfer" /\ log[i].result = "Ok"})

token_fee(user_ata, authority, mint_account, incinerator_ata, amount) ==
  /\ okCalls < MaxCalls
  /\ LET r == TokenFee(balance, frozen, user_ata, authority, mint_account,
                       incinerator_ata, amount)
     IN /\ balance' = r.balance
        /\ cpi' = r.cpi
        /\ last' = [op |-> "token_fee", user_ata |-> user_ata,
                    authority |-> authority, mint_account |-> mint_account,
                    incinerator |-> incinerator_ata, amount |-> amount,
                    result |-> r.result]
        /\ okCalls' = IF r.result = "Ok" THEN okCalls + 1 ELSE okCalls
        /\ transfers' = transfers + OkTransfers(r.cpi)
        /\ charged' = IF r.result = "Ok"
                        THEN [charged EXCEPT ![user_ata] = @ + amount]
                        ELSE charged
  /\ UNCHANGED <<frozen, metadata, item_struct, derived>>

InitFee ==
  /\ balance = InitBalance
  /\ frozen = {}
  /\ last = NoCall
  /\ cpi = <<>>
  /\ okCalls = 0
  /\ transfers = 0
  /\ charged = [a \in TokenAccounts |-> 0]

\* ------------------------------------------- wrappers/metadata.rs: freeze
EditionOf(mint) == IF mint = MintA THEN EditionA ELSE EditionB

\* Metadata program, FreezeDelegatedAccount / ThawDelegatedAccount: the
\* delegate must be the token account's delegate, the mint the account's
\* mint and the edition the mint's edition (its freeze authority).
MplDelegatedAccount(delegate, token_account, edition, mint) ==
  IF token_account \notin TokenAccounts THEN "IncorrectOwner"
  ELSE IF TokenAccountInfo[token_account].mint # mint THEN "MintMismatch"
  ELSE IF EditionOf(mint) # edition THEN "DerivedKeyInvalid"
  ELSE IF TokenAccountInfo[token_account].delegate # delegate
    THEN "InvalidDelegate"
  ELSE "Ok"

DelegatedIx(instruction, delegate, token_account, edition, mint, result) ==
  [program |-> "mpl_token_metadata", instruction |-> instruction,
   delegate |-> delegate, token_account |-> token_account,
   edition |-> edition, mint |-> mint, result |-> result]

freeze_delegated_account(delegate, token_account, edition, mint) ==
  LET r == MplDelegatedAccount(delegate, token_account, edition, mint)
  IN /\ frozen' = IF r = "Ok" THEN frozen \cup {token_account} ELSE frozen
     /\ cpi' = <<DelegatedIx("freeze_delegated_account", delegate,
                             token_account, edition, mint, r)>>
     /\ last' = [op |-> "freeze_delegated_account", result |-> r]
     /\ UNCHANGED <<balance, okCalls, transfers, charged, metadata,
                    item_struct, derived>>

thaw_delegated_account(delegate, token_account, edition, mint) ==
  LET r == MplDelegatedAccount(delegate, token_account, edition, mint)
  IN /\ frozen' = IF r = "Ok" THEN frozen \ {token_account} ELSE frozen
     /\ cpi' = <<DelegatedIx("thaw_delegated_account", delegate,
                             token_account, edition, mint, r)>>
     /\ last' = [op |-> "thaw_delegated_account", result |-> r]
     /\ UNCHANGED <<balance, okCalls, transfers, charged, metadata,
                    item_struct, derived>>

\* ------------------------------------------- wrappers/metadata.rs: update
MetadataA == 11
MetadataB == 12
MetadataAccounts == {MetadataA, MetadataB}
DataValues == {"d0", "d1", "d2"}

None == [some |-> FALSE]
Some(v) == [some |-> TRUE, value |-> v]

\* mpl_token_metadata::instruction::update_metadata_accounts_v2(program_id,
\* metadata_account, update_authority, new_update_authority, data,
\* primary_sale_happened, is_mutable)
UpdateMetadataIx(program_id, metadata_account, update_authority, new_update_authority, data, primary_sale_happened, is_mutable) ==
  [program |-> program_id, instruction |-> "update_metadata_accounts_v2",
   metadata_account |-> metadata_account,
   update_authority |-> update_authority,
   new_update_authority |-> new_update_authority, data |-> data,
   primary_sale_happened |-> primary_sale_happened,
   is_mutable |-> is_mutable]

\* Metadata program, UpdateMetadataAccountV2: applies each operand that is
\* present; an absent operand leaves its attribute alone.
MplUpdateMetadata(md, ix, signed) ==
  IF ix.metadata_account \notin MetadataAccounts
    THEN [result |-> "IncorrectOwner", metadata |-> md]
  ELSE LET m == md[ix.metadata_account] IN
    IF m.update_authority # ix.update_authority
      THEN [result |-> "UpdateAuthorityIncorrect", metadata |-> md]
    ELSE IF ~signed
      THEN [result |-> "UpdateAuthorityIsNotSigner", metadata |-> md]
    ELSE IF ix.data.some /\ ~m.is_mutable
      THEN [result |-> "DataIsImmutable", metadata |-> md]
    ELSE IF ix.primary_sale_happened.some /\ m.primary_sale_happened
              /\ ~ix.primary_sale_happened.value
      THEN [result |-> "PrimarySaleCanOnlyBeFlippedToTrue", metadata |-> md]
    ELSE IF ix.is_mutable.some /\ ~m.is_mutable /\ ix.is_mutable.value
      THEN [result |-> "IsMutableCanOnlyBeFlippedToFalse", metadata |-> md]
    ELSE [result |-> "Ok",
          metadata |-> [md EXCEPT ![ix.metadata_account] =
            [update_authority |->
               IF ix.new_update_authority.some
                 THEN ix.new_update_authority.value ELSE m.update_authority,
             data |-> IF ix.data.some THEN ix.data.value ELSE m.data,
             primary_sale_happened |->
               IF ix.primary_sale_happened.some
                 THEN ix.primary_sale_happened.value
                 ELSE m.primary_sale_happened,
             is_mutable |->
               IF ix.is_mutable.some
                 THEN ix.is_mutable.value ELSE m.is_mutable]]]

\* Variant: the wrapper also locks the record (is_mutable = Some(false)).
UpdateMetadataAccountsV2Ix_Locks(metadata_account, update_authority, data) ==
  UpdateMetadataIx("mpl_token_metadata", metadata_account, update_authority,
                   None, Some(data), None, Some(FALSE))

\* The instruction the wrapper builds from its context and data.
UpdateMetadataAccountsV2Ix(metadata_account, update_authority, data) ==
  UpdateMetadataIx("mpl_token_metadata", metadata_account, update_authority,
                   None, Some(data), None, None)

\* signed: whether the transaction or ctx.signer_seeds signs for the
\* update authority.
update_metadata_accounts_v2(metadata_account, update_authority, signed, data) ==
  LET ix == UpdateMetadataAccountsV2Ix(metadata_account, update_authority,
                                       data)
      r == MplUpdateMetadata(metadata, ix, signed)
  IN /\ metadata' = r.metadata
     /\ cpi' = <<ix @@ [result |-> r.result]>>
     /\ last' = [op |-> "update_metadata_accounts_v2",
                 metadata_account |-> metadata_account,
                 update_authority |-> update_authority, data |-> data,
                 result |-> r.result]
     /\ UNCHANGED <<balance, frozen, okCalls, transfers, charged,
                    item_struct, derived>>

DefaultMetadata ==
  [a \in MetadataAccounts |->
     [update_authority |-> Alice, data |-> "d0",
      primary_sale_happened |-> FALSE, is_mutable |-> TRUE]]

MetadataRecords ==
  [update_authority : Authorities, data : {"d0"},
   primary_sale_happened : BOOLEAN, is_mutable : BOOLEAN]

\* --------------------------------------------- derive/chargeable/src/lib.rs
\* Bounds of the struct definitions handed to the derive macro.
MaxFields == 6
MaxMarkers == 1

\* The five roles, in the order get_fields! resolves them.
RoleOrder == <<"fee_payer", "fee_payer_ata", "fee_incinerator_ata",
               "fee_token_address", "token_program">>
Roles == {RoleOrder[i] : i \in DOMAIN RoleOrder}

\* Field identifiers: the default names and one name that is no role.
FieldNames == Roles \cup {"owner"}
\* ident of a field of a tuple struct (syn: field.ident = None)
NoIdent == "_"

RECURSIVE Placements(_, _)
\* Sets of at most k (field position, marker) pairs over n fields.
Placements(n, k) ==
  IF k = 0 THEN {{}}
  ELSE LET prev == Placements(n, k - 1)
       IN prev \cup {P \cup {x} : P \in prev, x \in (1..n) \X Roles}

AttrsAt(P, i) == {x[2] : x \in {y \in P : y[1] = i}}

\* Lists of n distinct field identifiers.
IdentLists(n) ==
  {s \in [1..n -> FieldNames] : \A i, j \in 1..n : i # j => s[i] # s[j]}

\* syn::ItemStruct, reduced to what the macro reads: the kind of its fields
\* and, per field, the identifier and the attribute identifiers.
ItemStruct(kind, ids, P) ==
  [kind |-> kind,
   fields |-> [i \in DOMAIN ids |-> [ident |-> ids[i],
                                      attrs |-> AttrsAt(P, i)]]]

FieldMatches(field, name) == field.ident = name \/ name \in field.attrs

MissingField(name) == [kind |-> "MissingField", role |-> name]
NotNamedFields == [kind |-> "NotNamedFields"]

\* fields.iter().find(..).ok_or(format!(.. Missing `{}` field ..))
get_field(name, fields) ==
  IF \E i \in DOMAIN fields : FieldMatches(fields[i], name)
    THEN LET i == CHOOSE k \in DOMAIN fields :
                    /\ FieldMatches(fields[k], name)
                    /\ \A j \in 1..(k - 1) : ~FieldMatches(fields[j], name)
         IN [ok |-> TRUE, field |-> fields[i]]
    ELSE [ok |-> FALSE, err |-> MissingField(name)]

\* Variant: the last unresolved role is reported instead of the first.
get_fields_ReportsLast(fields) ==
  LET res == [i \in DOMAIN RoleOrder |-> get_field(RoleOrder[i], fields)]
      failed == {i \in DOMAIN RoleOrder : ~res[i].ok}
  IN IF failed # {}
       THEN LET i == CHOOSE k \in failed : \A j \in failed : k >= j
            IN [ok |-> FALSE, err |-> res[i].err]
       ELSE [ok |-> TRUE,
             idents |-> [r \in Roles |-> get_field(r, fields).field.ident]]

\* get_fields!: the roles are resolved in order and the first Err returns.
get_fields(fields) ==
  LET res == [i \in DOMAIN RoleOrder |-> get_field(RoleOrder[i], fields)]
      failed == {i \in DOMAIN RoleOrder : ~res[i].ok}
  IN IF failed # {}
       THEN LET i == CHOOSE k \in failed : \A j \in failed : k <= j
            IN [ok |-> FALSE, err |-> res[i].err]
       ELSE [ok |-> TRUE,
             idents |-> [r \in Roles |-> get_field(r, fields).field.ident]]

\* Variant: the two token-account accessors are exchanged.
ChargeableImpl_Swapped(id) ==
  [mint_account |-> id["fee_token_address"],
   user_ata |-> id["fee_incinerator_ata"],
   incinerator |-> id["fee_payer_ata"],
   authority |-> id["fee_payer"],
   token_program |-> id["token_program"]]

\* The generated impl: accessor name |-> field it returns.
ChargeableImpl(id) ==
  [mint_account |-> id["fee_token_address"],
   user_ata |-> id["fee_payer_ata"],
   incinerator |-> id["fee_incinerator_ata"],
   authority |-> id["fee_payer"],
   token_program |-> id["token_program"]]

\* Variant: the five resolved fields must be pairwise distinct.
impl_chargeable_Distinct(item) ==
  IF item.kind # "Named"
    THEN [ok |-> FALSE, error |-> NotNamedFields]
  ELSE LET g == get_fields(item.fields)
       IN IF ~g.ok THEN [ok |-> FALSE, error |-> g.err]
          ELSE IF \E r1, r2 \in Roles : r1 # r2 /\ g.idents[r1] = g.idents[r2]
            THEN [ok |-> FALSE, error |-> [kind |-> "AmbiguousField"]]
          ELSE [ok |-> TRUE, impl |-> ChargeableImpl(g.idents)]

impl_chargeable(item) ==
  IF item.kind # "Named"
    THEN [ok |-> FALSE, error |-> NotNamedFields]
  ELSE LET g == get_fields(item.fields)
       IN IF ~g.ok THEN [ok |-> FALSE, error |-> g.err]
          ELSE [ok |-> TRUE, impl |-> ChargeableImpl(g.idents)]

NotDerived == [ok |-> FALSE, error |-> [kind |-> "NotExpanded"]]

\* One expansion of the derive macro on the struct definition.
chargeable_derive ==
  /\ derived' = impl_chargeable(item_struct)
  /\ UNCHANGED <<balance, frozen, last, cpi, okCalls, transfers, charged,
                 metadata, item_struct>>

\* The struct definition of the specifications that do not expand the macro.
DefaultStruct == [kind |-> "Unit", fields |-> <<>>]

\* --------------------------------------------------------- specifications
\* Fee Charger with the delegated freeze/thaw wrappers.
Init ==
  /\ InitFee
  /\ metadata = DefaultMetadata
  /\ item_struct = DefaultStruct
  /\ derived = NotDerived

Next ==
  \/ \E user_ata, incinerator_ata \in TokenAccounts, authority \in Authorities,
        mint_account \in Mints, amount \in 0..MaxAmount :
       token_fee(user_ata, authority, mint_account, incinerator_ata, amount)
  \/ \E delegate \in {Delegate, Alice}, token_account \in TokenAccounts,
        edition \in Editions, mint \in Mints :
       freeze_delegated_account(delegate, token_account, edition, mint)
  \/ \E delegate \in {Delegate, Alice}, token_account \in TokenAccounts,
        edition \in Editions, mint \in Mints :
       thaw_delegated_account(delegate, token_account, edition, mint)

Spec == Init /\ [][Next]_vars

\* Metadata update wrapper.
InitMetadata ==
  /\ InitFee
  /\ metadata \in [MetadataAccounts -> MetadataRecords]
  /\ item_struct = DefaultStruct
  /\ derived = NotDerived

NextMetadata ==
  \E metadata_account \in MetadataAccounts \cup {AuxAccount},
     update_authority \in Authorities, signed \in BOOLEAN,
     data \in DataValues :
    update_metadata_accounts_v2(metadata_account, update_authority, signed,
                                data)

SpecMetadata == InitMetadata /\ [][NextMetadata]_vars

\* Field Resolver: one expansion of the derive macro per struct definition.
InitResolver ==
  /\ InitFee
  /\ metadata = DefaultMetadata
  /\ derived = NotDerived
  /\ \/ \E n \in 0..MaxFields :
          \E ids \in IdentLists(n), P \in Placements(n, MaxMarkers) :
            item_struct = ItemStruct("Named", ids, P)
     \/ \E id \in FieldNames, A \in SUBSET Roles :
          item_struct = [kind |-> "Named",
                         fields |-> <<[ident |-> id, attrs |-> A]>>]
     \/ \E n \in 1..MaxFields :
          \E P \in Placements(n, 1) :
            item_struct = ItemStruct("Unnamed", [i \in 1..n |-> NoIdent], P)
     \/ item_struct = DefaultStruct

NextResolver == chargeable_derive

SpecResolver == InitResolver /\ [][NextResolver]_vars

\* ================================================================ claims
Invalid == "InvalidAssociatedTokenAddress"
IsFee(l) == l.op = "token_fee"

\* Both Address Triples of a token_fee call verify.
Canonical(l) ==
  /\ l.incinerator = get_associated_token_address(IncineratorId, l.mint_account)
  /\ l.user_ata = get_associated_token_address(l.authority, l.mint_account)

\* C1: token_fee is fail-closed. A transfer is issued only when both address
\* checks pass; when either fails the call returns
\* InvalidAssociatedTokenAddress, issues no invocation and changes no balance.
C1_FailClosed ==
  [][IsFee(last') =>
       /\ (cpi' # <<>> => Canonical(last'))
       /\ (~Canonical(last') =>
             /\ last'.result = Invalid
             /\ cpi' = <<>>
             /\ balance' = balance
             /\ transfers' = transfers)]_vars

\* The payer check alone fails, on a payer account the authority owns.
C1_Witness ==
  /\ IsFee(last)
  /\ last.incinerator = get_associated_token_address(IncineratorId, last.mint_account)
  /\ last.user_ata = AuxAccount
  /\ last.authority = Alice
  /\ last.amount > 0
  /\ last.result = Invalid
  /\ cpi = <<>>

\* The transfer of a successful fee: one invocation with the operands of the
\* context, the debit of the payer and the credit of the burn account.
FeeApplied ==
  /\ last'.result = "Ok"
  /\ Len(cpi') = 1
  /\ cpi'[1].instruction = "transfer"
  /\ cpi'[1].from = last'.user_ata
  /\ cpi'[1].to = last'.incinerator
  /\ cpi'[1].authority = last'.authority
  /\ cpi'[1].amount = last'.amount
  /\ balance'[last'.user_ata] = balance[last'.user_ata] - last'.amount
  /\ balance'[last'.incinerator] = balance[last'.incinerator] + last'.amount

\* C2 as stated: canonical addresses and a sufficient balance are enough for
\* token_fee to succeed and move exactly the amount.
C2_Original ==
  [][(IsFee(last') /\ Canonical(last')
        /\ balance[last'.user_ata] >= last'.amount) => FeeApplied]_vars

\* C2 (amended): for every amount, when both addresses are canonical, the
\* payer's balance is at least the amount and neither token account is
\* frozen, token_fee succeeds, the payer is debited and the burn account
\* credited exactly the amount, and the transfer goes from the payer account
\* to the burn account under the authority.
C2_FeeMovesAmount ==
  [][(IsFee(last') /\ Canonical(last')
        /\ balance[last'.user_ata] >= last'.amount
        /\ last'.user_ata \notin frozen
        /\ last'.incinerator \notin frozen) => FeeApplied]_vars

\* The whole initial balance of Alice has been charged in one call.
C2_Witness ==
  /\ IsFee(last)
  /\ last.result = "Ok"
  /\ last.amount = MaxAmount
  /\ last.user_ata = get_associated_token_address(Alice, MintA)
  /\ balance[last.user_ata] = 0
  /\ balance[last.incinerator] = MaxAmount
  /\ okCalls = 1

\* C3: when both checks pass and the transfer fails, token_fee returns the
\* transfer's error (neither Ok nor InvalidAssociatedTokenAddress) and no
\* balance changes; a balance below the amount is such a failure.
C3_TransferFailurePropagates ==
  [][(IsFee(last') /\ Canonical(last')) =>
       /\ Len(cpi') = 1
       /\ (cpi'[1].result # "Ok" =>
             /\ last'.result = cpi'[1].result
             /\ last'.result \notin {"Ok", Invalid}
             /\ balance' = balance)
       /\ (balance[last'.user_ata] < last'.amount =>
             /\ last'.result \notin {"Ok", Invalid}
             /\ balance' = balance)]_vars

C3_Witness ==
  /\ IsFee(last)
  /\ Canonical(last)
  /\ last.result = "InsufficientFunds"
  /\ balance[last.user_ata] < last.amount
  /\ cpi # <<>>

\* C4: a successful call issues exactly one invocation, a transfer; k
\* successful calls have had k transfers executed and every payer account
\* has been debited the sum of the amounts charged to it.
C4_OneTransferPerCall ==
  /\ transfers = okCalls
  /\ (IsFee(last) /\ last.result = "Ok" =>
        Len(cpi) = 1 /\ cpi[1].instruction = "transfer")
  /\ \A a \in TokenAccounts :
       TokenAccountInfo[a].owner # IncineratorId =>
         balance[a] = InitBalance[a] - charged[a]

\* The same fee of 1 has been charged to Alice twice in a row.
C4_Witness ==
  /\ okCalls = 2
  /\ transfers = 2
  /\ IsFee(last)
  /\ last.amount = 1
  /\ last.user_ata = get_associated_token_address(Alice, MintA)
  /\ charged[last.user_ata] = 2

\* C8: whether a call passes address validation is a function of its four
\* keys: it is the outcome the same keys have with amount 0 on the initial
\* ledger, whatever the amount, the balances and the earlier calls; so two
\* calls with equal keys agree, and a retry of a rejected call is rejected.
C8_ValidationDependsOnKeysOnly ==
  IsFee(last) =>
    ((last.result = Invalid) <=>
       (TokenFee(InitBalance, {}, last.user_ata, last.authority,
                 last.mint_account, last.incinerator, 0).result = Invalid))

\* A rejected call after fees were charged and an account was frozen.
C8_Witness ==
  /\ IsFee(last)
  /\ last.result = Invalid
  /\ last.amount > 0
  /\ okCalls > 0
  /\ frozen # {}
  /\ balance # InitBalance

\* C10: update_metadata_accounts_v2 issues one update-metadata-v2 invocation
\* for its metadata account and update authority with only the data operand
\* present; update authority, primary-sale flag and mutability of every
\* record are unchanged, and the result of the invocation is returned.
C10_OnlyDataUpdated ==
  [][last'.op = "update_metadata_accounts_v2" =>
       /\ Len(cpi') = 1
       /\ cpi'[1].program = "mpl_token_metadata"
       /\ cpi'[1].instruction = "update_metadata_accounts_v2"
       /\ cpi'[1].metadata_account = last'.metadata_account
       /\ cpi'[1].update_authority = last'.update_authority
       /\ cpi'[1].data = Some(last'.data)
       /\ ~cpi'[1].new_update_authority.some
       /\ ~cpi'[1].primary_sale_happened.some
       /\ ~cpi'[1].is_mutable.some
       /\ last'.result = cpi'[1].result
       /\ \A a \in MetadataAccounts :
            /\ metadata'[a].update_authority = metadata[a].update_authority
            /\ metadata'[a].primary_sale_happened
                 = metadata[a].primary_sale_happened
            /\ metadata'[a].is_mutable = metadata[a].is_mutable]_vars

\* The data of a mutable record has been replaced.
C10_Witness ==
  /\ last.op = "update_metadata_accounts_v2"
  /\ last.result = "Ok"
  /\ last.data = "d2"
  /\ metadata[last.metadata_account].data = "d2"
  /\ metadata[last.metadata_account].is_mutable
  /\ metadata[last.metadata_account].update_authority = Bob

\* ---------------------------------------------------------- Field Resolver
Fields == item_struct.fields
Named == item_struct.kind = "Named"
Expanded == derived # NotDerived
HasName(r) == \E i \in DOMAIN Fields : Fields[i].ident = r
HasMarker(r) == \E i \in DOMAIN Fields : r \in Fields[i].attrs
Resolvable(r) == HasName(r) \/ HasMarker(r)

\* The accessor generated for each role.
RoleAccessor ==
  [r \in Roles |->
     CASE r = "fee_token_address" -> "mint_account"
       [] r = "fee_payer_ata" -> "user_ata"
       [] r = "fee_incinerator_ata" -> "incinerator"
       [] r = "fee_payer" -> "authority"
       [] r = "token_program" -> "token_program"]

\* The field the generated accessor of role r returns.
Resolved(r) == derived.impl[RoleAccessor[r]]

\* First field, in declaration order, that has the name or the marker of r.
FirstMatch(r) ==
  Fields[CHOOSE i \in DOMAIN Fields :
           /\ (Fields[i].ident = r \/ r \in Fields[i].attrs)
           /\ \A j \in 1..(i - 1) :
                ~(Fields[j].ident = r \/ r \in Fields[j].attrs)].ident

\* C5: a field named exactly as a role is the field the role resolves to,
\* whatever markers other fields carry and whatever the declaration order.
C5_NameTakesPrecedence ==
  (Expanded /\ derived.ok) =>
     \A r \in Roles : HasName(r) => Resolved(r) = r

\* C6: a role whose default name is absent and whose marker is on some field
\* is never reported missing; when every role has a match the impl is
\* generated, the role's accessor returns a field carrying the marker, and
\* the accessors are mint_account -> fee_token_address, user_ata ->
\* fee_payer_ata, incinerator -> fee_incinerator_ata, authority -> fee_payer,
\* token_program -> token_program.
C6_MarkerResolves ==
  (Expanded /\ Named) =>
    /\ \A r \in Roles :
         (~HasName(r) /\ HasMarker(r)) =>
           /\ (~derived.ok => derived.error # MissingField(r))
           /\ (derived.ok =>
                 \E i \in DOMAIN Fields :
                   /\ Fields[i].ident = Resolved(r)
                   /\ Fields[i].ident # r
                   /\ r \in Fields[i].attrs)
    /\ ((\A r \in Roles : Resolvable(r)) => derived.ok)
    /\ (derived.ok =>
          /\ derived.impl.mint_account = FirstMatch("fee_token_address")
          /\ derived.impl.user_ata = FirstMatch("fee_payer_ata")
          /\ derived.impl.incinerator = FirstMatch("fee_incinerator_ata")
          /\ derived.impl.authority = FirstMatch("fee_payer")
          /\ derived.impl.token_program = FirstMatch("token_program"))

\* `owner` carries #[fee_payer], no field is named fee_payer, and the other
\* four roles are found by name.
C6_Witness ==
  /\ Expanded /\ Named /\ derived.ok
  /\ ~HasName("fee_payer")
  /\ derived.impl.authority = "owner"
  /\ derived.impl.user_ata = "fee_payer_ata"
  /\ derived.impl.incinerator = "fee_incinerator_ata"
  /\ derived.impl.mint_account = "fee_token_address"
  /\ derived.impl.token_program = "token_program"

Failure ==
  Expanded /\ ~derived.ok /\ "impl" \notin DOMAIN derived

\* C7 as stated: the expansion fails whenever a role has no match, with a
\* diagnostic naming that role; it fails for structs without named fields
\* and succeeds otherwise.
C7_Original ==
  Expanded =>
    /\ (~Named => Failure)
    /\ (Named => \A r \in Roles :
          ~Resolvable(r) => (Failure /\ derived.error = MissingField(r)))
    /\ ((Named /\ \A r \in Roles : Resolvable(r)) => derived.ok)

\* C7 (amended): the expansion fails whenever a role has no match, and the
\* diagnostic names the first such role in the order fee_payer,
\* fee_payer_ata, fee_incinerator_ata, fee_token_address, token_program; it
\* fails for structs without named fields and succeeds otherwise.
C7_FirstMissingRoleNamed ==
  Expanded =>
    /\ (~Named => (Failure /\ derived.error = NotNamedFields))
    /\ (Named => \A i \in DOMAIN RoleOrder :
          (~Resolvable(RoleOrder[i])
             /\ \A j \in 1..(i - 1) : Resolvable(RoleOrder[j]))
            => (Failure /\ derived.error = MissingField(RoleOrder[i])))
    /\ ((Named /\ \A r \in Roles : Resolvable(r)) => derived.ok)

\* fee_payer resolves, fee_payer_ata and token_program do not: the
\* diagnostic names fee_payer_ata.
C7_Witness ==
  /\ Expanded /\ Named
  /\ Resolvable("fee_payer")
  /\ ~Resolvable("fee_payer_ata")
  /\ ~Resolvable("token_program")
  /\ ~derived.ok
  /\ derived.error = MissingField("fee_payer_ata")

\* C9: each role resolves on its own: to the first field having its name or
\* its marker, whatever the other roles resolve to; the struct is accepted
\* exactly when every role has a match, also when one field serves two
\* roles, whose accessors then return that same field.
C9_RolesIndependent ==
  (Expanded /\ Named) =>
    /\ (derived.ok <=> \A r \in Roles : Resolvable(r))
    /\ (derived.ok => \A r \in Roles : Resolved(r) = FirstMatch(r))

\* One field serves two roles, by its name and by a marker.
C9_Witness ==
  /\ Expanded /\ Named /\ derived.ok
  /\ \E r1, r2 \in Roles :
       /\ r1 # r2
       /\ Resolved(r1) = r1
       /\ Resolved(r2) = r1
       /\ ~HasName(r2)

====
